---- MODULE Spec2Model ----
(***************************************************************************)
(* Model of github.com/jaytaylor/stoppableListener (listener.go).          *)
(*                                                                         *)
(* One StoppableListener wraps one *net.TCPListener.  Accept loops (the    *)
(* goroutine of listener_test.go) call Accept() repeatedly; other          *)
(* goroutines call Stop() or StopSafely().  Every goroutine is a process   *)
(* with a program counter.  An action is one operation on what the         *)
(* goroutines share (the listener, the port) together with the code of    *)
(* the same goroutine that follows it up to the next such operation; the  *)
(* poll of sl.stopCh in Accept() is taken with the return of the          *)
(* underlying accept that it follows.                                     *)
(*                                                                         *)
(* Environment (package net and the kernel), as the wrapper sees it:       *)
(*   - handle: whether the TCPListener's descriptor is usable.  Close()    *)
(*     marks the descriptor closed before anything in it can fail, so the  *)
(*     handle is unusable after every Close() call, whether Close()        *)
(*     reports an error (failed close(2), or already closed) or not.       *)
(*   - portOpen: whether the kernel still accepts connections on the       *)
(*     address.  The port is released some time after the handle has been  *)
(*     closed (PortRelease), never before, and is not bound again.         *)
(*   - pending: connections queued by the kernel and not yet accepted.     *)
(***************************************************************************)
EXTENDS Integers, FiniteSets, Sequences, TLC

\* ---- bounds of the model ----
NumAcceptors == 1
NumStoppers == 1
MaxPending == 1
MaxStopCalls == 2
MaxChecksCfg == 0

\* ---- program constants ----
DefaultMaxStopChecks == 3

\* The goroutines.  Those of a kind run the same code and are numbered in
\* the order of their first call.
Acceptors == 1..NumAcceptors
Stoppers == 1..NumStoppers

\* Values MaxStopChecks can be given by the caller before first use.
ChecksChoices == (-1..MaxChecksCfg) \cup {DefaultMaxStopChecks}

\* errors.New values of the package and the nil error
NilError == "nil"
StoppedError == "StoppedError"
ListenerWrapError == "ListenerWrapError"
NotStoppedError == "NotStoppedError"
PlatformNotSupportedError == "PlatformNotSupportedError"

\* Errors of (*net.TCPListener).Accept, all of them net.Error values:
\*   timeout   - the deadline elapsed (Temporary and Timeout)
\*   temporary - e.g. EMFILE (Temporary, not Timeout)
\*   permanent - e.g. ENOBUFS on a usable descriptor (not Temporary)
\*   closed    - use of closed network connection (not Temporary)
AcceptErrors == {"timeout", "temporary", "permanent", "closed"}

IsNetError(err) == err \in AcceptErrors
Temporary(err) == err \in {"timeout", "temporary"}
Timeout(err) == err = "timeout"

NilConn == "nil"
Conn == "conn"

VARIABLES
    lkind,          \* dynamic type of the net.Listener handed to New
    newErr,         \* error returned by New ("none" before the call)
    stopCh,         \* sl.stopCh: "none" (no wrapper), "open", "closed", "nil"
    MaxStopChecks,  \* sl.MaxStopChecks
    goos,           \* runtime.GOOS
    handle,         \* descriptor of sl.TCPListener: "open" or "closed"
    portOpen,       \* the kernel accepts connections on the address
    pending,        \* queued, not yet accepted connections
    panicked,       \* a goroutine panicked (close of a closed channel)
    apc, aconn, aerr,        \* accept loops: position, (newConn, err)
    araw,           \* history: err of the latest sl.TCPListener.Accept() of the
                    \* Accept() call in progress ("none": none has returned)
    ablocked,       \* history of the Accept() call in progress: "blocked" when Stop()
                    \* closed the handle while the call waited in the underlying
                    \* accept, "after" when the call began after that, else "no"
    aafter,         \* history: the Accept() call in progress began after a Stop() returned
    spc, sop, si, serr,      \* stoppers: position, operation, i, result
    scloseErr,      \* closeErr of the current Stop() ("none": Close not called)
    sstopErr,       \* history: what the Stop() of the current call returned
                    \* ("none": it has not returned)
    swaited,        \* history: the current call has entered waitUntilStopped()
    sprobes,        \* history: nc runs of the current waitUntilStopped()
    sfailed,        \* history: an nc run of the current waitUntilStopped() failed
    ssawReleased,   \* history: an nc run was made after the port was released
    safter,         \* history: the current call began after a Stop() returned
    stopCalls,      \* history: number of Stop()/StopSafely() calls made
    closeCalls,     \* history: number of TCPListener.Close() invocations
    stopChChanges,  \* history: number of changes of sl.stopCh since New
    stopReturned,   \* history: some Stop() has returned
    afterFirst,     \* history: wrapper state when the first Stop() returned
    safelyOk        \* history: some StopSafely() has returned nil

avars == <<apc, aconn, aerr, araw, ablocked, aafter>>
svars == <<spc, sop, si, serr, scloseErr, sstopErr, swaited, sprobes, sfailed, ssawReleased, safter, stopCalls>>
hvars == <<closeCalls, stopChChanges, stopReturned, afterFirst, safelyOk>>
wvars == <<lkind, newErr, stopCh, MaxStopChecks, goos, handle, portOpen, pending, panicked>>
vars == <<wvars, avars, svars, hvars>>

Init ==
    /\ lkind \in {"tcp", "other"}
    /\ goos \in {"linux", "windows"}
    /\ newErr = "none"
    /\ stopCh = "none"
    /\ MaxStopChecks = 0
    /\ handle = "open"
    /\ portOpen = TRUE
    /\ pending = 0
    /\ panicked = FALSE
    /\ apc = [a \in Acceptors |-> "idle"]
    /\ aconn = [a \in Acceptors |-> NilConn]
    /\ aerr = [a \in Acceptors |-> NilError]
    /\ araw = [a \in Acceptors |-> "none"]
    /\ ablocked = [a \in Acceptors |-> "no"]
    /\ aafter = [a \in Acceptors |-> FALSE]
    /\ spc = [s \in Stoppers |-> "idle"]
    /\ sop = [s \in Stoppers |-> "none"]
    /\ si = [s \in Stoppers |-> 0]
    /\ serr = [s \in Stoppers |-> NilError]
    /\ scloseErr = [s \in Stoppers |-> "none"]
    /\ sstopErr = [s \in Stoppers |-> "none"]
    /\ swaited = [s \in Stoppers |-> FALSE]
    /\ sprobes = [s \in Stoppers |-> 0]
    /\ sfailed = [s \in Stoppers |-> FALSE]
    /\ ssawReleased = [s \in Stoppers |-> FALSE]
    /\ safter = [s \in Stoppers |-> FALSE]
    /\ stopCalls = 0
    /\ closeCalls = 0
    /\ stopChChanges = 0
    /\ stopReturned = FALSE
    /\ afterFirst = "none"
    /\ safelyOk = FALSE

\* The wrapper exists and no goroutine has panicked.
Running == newErr = NilError /\ ~panicked

\* ---- New (listener.go 35-51) ----
\* New() taking every listener for a TCP listener.
IsTCPListenerAlways(kind) == TRUE

\* listener.go 36: ok of the type assertion l.(*net.TCPListener)
IsTCPListener(kind) == kind = "tcp"

New ==
    /\ newErr = "none"
    /\ IF ~IsTCPListener(lkind)
       THEN /\ newErr' = ListenerWrapError
            /\ UNCHANGED <<stopCh, MaxStopChecks>>
       ELSE /\ newErr' = NilError
            /\ stopCh' = "open"
            /\ MaxStopChecks' = DefaultMaxStopChecks
    /\ UNCHANGED <<lkind, goos, handle, portOpen, pending, panicked, avars, svars, hvars>>

\* The caller sets the exported field MaxStopChecks before first use.
Configure(n) ==
    /\ Running
    /\ \A a \in Acceptors : apc[a] = "idle"
    /\ stopCalls = 0
    /\ pending = 0
    /\ MaxStopChecks = DefaultMaxStopChecks
    /\ n # DefaultMaxStopChecks
    /\ MaxStopChecks' = n
    /\ UNCHANGED <<lkind, newErr, stopCh, goos, handle, portOpen, pending, panicked, avars, svars, hvars>>

\* ---- (*net.TCPListener).Accept as called at listener.go 58 ----
\* The set of (newConn, err) pairs the call can produce.
ListenerAccept(h, pend) ==
    IF h = "closed"
    THEN {<<NilConn, "closed">>}
    ELSE (IF pend > 0 THEN {<<Conn, NilError>>} ELSE {<<NilConn, "timeout">>})
         \cup {<<NilConn, "temporary">>, <<NilConn, "permanent">>}

\* Accept() without the test for a non-temporary error: only a temporary
\* timeout is retried, every other error is handed to the caller.
AcceptClassifyNoPermanentCheck(ch, newConn, err) ==
    IF err # NilError
    THEN IF ch = "closed"
         THEN [act |-> "panic", conn |-> NilConn, err |-> StoppedError, ch |-> ch]
         ELSE IF IsNetError(err) /\ Timeout(err) /\ Temporary(err)
              THEN [act |-> "continue", conn |-> NilConn, err |-> NilError, ch |-> ch]
              ELSE [act |-> "return", conn |-> newConn, err |-> err, ch |-> ch]
    ELSE [act |-> "return", conn |-> newConn, err |-> err, ch |-> ch]

\* Accept() without the retry: a timeout is handed to the caller like any
\* other temporary error.
AcceptClassifyNoRetry(ch, newConn, err) ==
    IF err # NilError
    THEN IF ch = "closed"
         THEN [act |-> "panic", conn |-> NilConn, err |-> StoppedError, ch |-> ch]
         ELSE IF IsNetError(err) /\ ~Temporary(err)
              THEN [act |-> "return", conn |-> NilConn, err |-> StoppedError, ch |-> ch]
              ELSE [act |-> "return", conn |-> newConn, err |-> err, ch |-> ch]
    ELSE [act |-> "return", conn |-> newConn, err |-> err, ch |-> ch]

\* Accept() reporting StoppedError for every error that is not a timeout,
\* temporary ones included.
AcceptClassifyStopsOnAnyError(ch, newConn, err) ==
    IF err # NilError
    THEN IF ch = "closed"
         THEN [act |-> "panic", conn |-> NilConn, err |-> StoppedError, ch |-> ch]
         ELSE IF IsNetError(err) /\ ~Timeout(err)
              THEN [act |-> "return", conn |-> NilConn, err |-> StoppedError, ch |-> ch]
              ELSE IF IsNetError(err) /\ Timeout(err)
                   THEN [act |-> "continue", conn |-> NilConn, err |-> NilError, ch |-> ch]
                   ELSE [act |-> "return", conn |-> newConn, err |-> err, ch |-> ch]
    ELSE [act |-> "return", conn |-> newConn, err |-> err, ch |-> ch]

\* Accept() retrying on every temporary error, not on timeouts alone.
AcceptClassifyRetryTemporary(ch, newConn, err) ==
    IF err # NilError
    THEN IF ch = "closed"
         THEN [act |-> "panic", conn |-> NilConn, err |-> StoppedError, ch |-> ch]
         ELSE IF IsNetError(err) /\ ~Temporary(err)
              THEN [act |-> "return", conn |-> NilConn, err |-> StoppedError, ch |-> ch]
              ELSE IF IsNetError(err) /\ Temporary(err)
                   THEN [act |-> "continue", conn |-> NilConn, err |-> NilError, ch |-> ch]
                   ELSE [act |-> "return", conn |-> newConn, err |-> err, ch |-> ch]
    ELSE [act |-> "return", conn |-> newConn, err |-> err, ch |-> ch]

\* Accept() going round its loop on a non-temporary error, leaving it to
\* the poll of the stop signal to end the call.
AcceptClassifyPollFirst(ch, newConn, err) ==
    IF err # NilError
    THEN IF ch = "closed"
         THEN [act |-> "panic", conn |-> NilConn, err |-> StoppedError, ch |-> ch]
         ELSE IF IsNetError(err) /\ (~Temporary(err) \/ Timeout(err))
              THEN [act |-> "continue", conn |-> NilConn, err |-> NilError, ch |-> ch]
              ELSE [act |-> "return", conn |-> newConn, err |-> err, ch |-> ch]
    ELSE [act |-> "return", conn |-> newConn, err |-> err, ch |-> ch]

\* ---- Accept, listener.go 60-82: what the loop body does with (newConn, err) ----
\* act is "return", "continue" or "panic"; ch is sl.stopCh afterwards.
AcceptClassify(ch, newConn, err) ==
    IF err # NilError
    THEN IF ch = "closed"
         \* case <-sl.stopCh succeeds only on a closed channel, and
         \* close(sl.stopCh) on a closed channel panics.
         THEN [act |-> "panic", conn |-> NilConn, err |-> StoppedError, ch |-> ch]
         ELSE IF IsNetError(err) /\ ~Temporary(err)
              THEN [act |-> "return", conn |-> NilConn, err |-> StoppedError, ch |-> ch]
              ELSE IF IsNetError(err) /\ Timeout(err)
                   THEN [act |-> "continue", conn |-> NilConn, err |-> NilError, ch |-> ch]
                   ELSE [act |-> "return", conn |-> newConn, err |-> err, ch |-> ch]
    ELSE [act |-> "return", conn |-> newConn, err |-> err, ch |-> ch]

\* Accept() closing the listener itself when it reports the stop.
AcceptHandleCloses(h, err) == IF err = StoppedError THEN "closed" ELSE h

\* The descriptor after a round of Accept() that ends with err:
\* listener.go 53-84 sets the deadline and accepts, and never closes.
AcceptHandle(h, err) == h

\* The accept loop calls Accept() for the first time: listener.go 53-56
\* (SetDeadline).
AcceptCall(a) ==
    /\ Running
    /\ apc[a] = "idle"
    /\ \A b \in Acceptors : b < a => apc[b] # "idle"
    /\ apc' = [apc EXCEPT ![a] = "accept"]
    /\ ablocked' = [ablocked EXCEPT ![a] = IF handle = "closed" THEN "after" ELSE "no"]
    /\ aafter' = [aafter EXCEPT ![a] = stopReturned]
    /\ UNCHANGED <<wvars, aconn, aerr, araw, svars, hvars>>

\* listener.go 58-82: sl.TCPListener.Accept() returns; stop check and
\* classification of the error; Accept() returns or goes round its loop
\* (SetDeadline, listener.go 56) and waits again.
AcceptWait(a) ==
    /\ Running
    /\ apc[a] = "accept"
    /\ \E out \in ListenerAccept(handle, pending) :
        LET r == AcceptClassify(stopCh, out[1], out[2]) IN
        /\ pending' = IF out[1] = Conn THEN pending - 1 ELSE pending
        /\ panicked' = (r.act = "panic")
        /\ stopCh' = r.ch
        /\ stopChChanges' = IF r.ch # stopCh THEN stopChChanges + 1 ELSE stopChChanges
        /\ aconn' = [aconn EXCEPT ![a] = r.conn]
        /\ aerr' = [aerr EXCEPT ![a] = r.err]
        /\ araw' = [araw EXCEPT ![a] = out[2]]
        /\ handle' = AcceptHandle(handle, r.err)
        /\ apc' = [apc EXCEPT ![a] = IF r.act = "continue" THEN "accept" ELSE "ret"]
    /\ UNCHANGED <<lkind, newErr, MaxStopChecks, goos, portOpen>>
    /\ UNCHANGED <<ablocked, aafter, svars, closeCalls, stopReturned, afterFirst, safelyOk>>

\* The caller's loop (listener_test.go 29-42): leave on StoppedError,
\* otherwise hand the connection on (or log the error) and call Accept()
\* again (listener.go 53-56).
AcceptLoop(a) ==
    /\ Running
    /\ apc[a] = "ret"
    /\ IF aerr[a] = StoppedError
       THEN /\ apc' = [apc EXCEPT ![a] = "exited"]
            /\ ablocked' = [ablocked EXCEPT ![a] = "no"]
            /\ aafter' = [aafter EXCEPT ![a] = FALSE]
            /\ araw' = [araw EXCEPT ![a] = "none"]
            /\ UNCHANGED <<aconn, aerr>>
       ELSE /\ apc' = [apc EXCEPT ![a] = "accept"]
            /\ aconn' = [aconn EXCEPT ![a] = NilConn]
            /\ aerr' = [aerr EXCEPT ![a] = NilError]
            /\ araw' = [araw EXCEPT ![a] = "none"]
            /\ ablocked' = [ablocked EXCEPT ![a] = IF handle = "closed" THEN "after" ELSE "no"]
            /\ aafter' = [aafter EXCEPT ![a] = stopReturned]
    /\ UNCHANGED <<wvars, svars, hvars>>

\* ---- Stop, listener.go 86-96 ----
\* The guard of Stop() inverted: return unless the field is nil.
StopGuardInverted(ch) == ch # "nil"

\* listener.go 87: the stop signal counts as fired when the field is nil.
StopGuard(ch) == ch = "nil"

\* (*net.TCPListener).Close as called at listener.go 91: the errors it can
\* report.  The descriptor is unusable afterwards in every case.
ListenerClose(h) == IF h = "closed" THEN {"err"} ELSE {NilError, "err"}

\* Stop() firing the stop signal: close(sl.stopCh).
StopSignalClose(ch) == "closed"

\* sl.stopCh after Stop(): listener.go 86-96 has no statement that closes
\* the channel or assigns the field.
StopSignal(ch) == ch

\* Stop() handing closeErr to its caller.
StopResultCloseErr(closeErr) == closeErr

\* The named result err of Stop() is never assigned: listener.go 91-95
\* logs closeErr and returns.
StopResult(closeErr) == NilError

\* The test of the nc result inverted.
ProbeSaysClosedInverted(ncErr) == ncErr = NilError

\* listener.go 123: a failed nc run is read as "the port is closed".
ProbeSaysClosed(ncErr) == ncErr # NilError

\* exec.Command("nc", ...).Run(), listener.go 122: nc exits with a
\* non-zero status when it cannot connect.
NcRun(open) == IF open THEN NilError ELSE "exit status 1"

\* The loop running until i equals the limit.
WaitLoopCondNotEqual(i, max) == i # max

\* The loop test off by one.
WaitLoopCondOffByOne(i, max) == i <= max

\* listener.go 121: for i := 0; i < sl.MaxStopChecks; i++
WaitLoopCond(i, max) == i < max

\* A loop that does not count its rounds.
NextIStuck(i) == i

\* listener.go 121: i++
NextI(i) == i + 1

\* The platform test inverted.
PlatformSupportedInverted(os) == os = "windows"

\* listener.go 116: runtime.GOOS == "windows" is not supported.
PlatformSupported(os) == os # "windows"

\* StopSafely() returning what Stop() returned without calling
\* waitUntilStopped().
AfterStopSkipsVerifier(op, err, os) == [pc |-> "done", err |-> err, waited |-> FALSE]

\* What Stop() returning err leads to: Stop() is done; StopSafely() is
\* done when err is not nil (listener.go 101-103); otherwise it calls
\* waitUntilStopped() (listener.go 104), which is done at once on Windows
\* (listener.go 116-118) and probes otherwise.  waited: waitUntilStopped()
\* is called.
AfterStop(op, err, os) ==
    IF op = "Stop" \/ err # NilError
    THEN [pc |-> "done", err |-> err, waited |-> FALSE]
    ELSE IF ~PlatformSupported(os)
         THEN [pc |-> "done", err |-> PlatformNotSupportedError, waited |-> TRUE]
         ELSE [pc |-> "loop", err |-> NilError, waited |-> TRUE]

\* Stop() or StopSafely() is called and Stop() tests the stop signal
\* (listener.go 100-101, 86-89).  With the signal nil, Stop() returns.
StopCall(s, op) ==
    /\ Running
    /\ spc[s] \in {"idle", "done"}
    /\ \A t \in Stoppers : t < s => sop[t] # "none"
    /\ stopCalls < MaxStopCalls
    /\ stopCalls' = stopCalls + 1
    /\ sop' = [sop EXCEPT ![s] = op]
    /\ safter' = [safter EXCEPT ![s] = stopReturned]
    /\ si' = [si EXCEPT ![s] = 0]
    /\ scloseErr' = [scloseErr EXCEPT ![s] = "none"]
    /\ sprobes' = [sprobes EXCEPT ![s] = 0]
    /\ sfailed' = [sfailed EXCEPT ![s] = FALSE]
    /\ ssawReleased' = [ssawReleased EXCEPT ![s] = FALSE]
    /\ IF StopGuard(stopCh)
       THEN LET r == AfterStop(op, NilError, goos) IN
            /\ spc' = [spc EXCEPT ![s] = r.pc]
            /\ serr' = [serr EXCEPT ![s] = r.err]
            /\ sstopErr' = [sstopErr EXCEPT ![s] = NilError]
            /\ swaited' = [swaited EXCEPT ![s] = r.waited]
            /\ stopReturned' = TRUE
            /\ afterFirst' = IF afterFirst = "none" THEN <<handle, stopCh>> ELSE afterFirst
       ELSE /\ spc' = [spc EXCEPT ![s] = "close"]
            /\ serr' = [serr EXCEPT ![s] = NilError]
            /\ sstopErr' = [sstopErr EXCEPT ![s] = "none"]
            /\ swaited' = [swaited EXCEPT ![s] = FALSE]
            /\ UNCHANGED <<stopReturned, afterFirst>>
    /\ UNCHANGED <<wvars, avars, closeCalls, stopChChanges, safelyOk>>

\* listener.go 90-95: sl.TCPListener.Close(), then Stop() returns; in
\* StopSafely() listener.go 101-104 and 116-120 follow.
StopClose(s) ==
    /\ Running
    /\ spc[s] = "close"
    /\ \E res \in ListenerClose(handle) :
        LET r == AfterStop(sop[s], StopResult(res), goos) IN
        /\ scloseErr' = [scloseErr EXCEPT ![s] = res]
        /\ sstopErr' = [sstopErr EXCEPT ![s] = StopResult(res)]
        /\ swaited' = [swaited EXCEPT ![s] = r.waited]
        /\ spc' = [spc EXCEPT ![s] = r.pc]
        /\ serr' = [serr EXCEPT ![s] = r.err]
    /\ handle' = "closed"
    /\ closeCalls' = closeCalls + 1
    /\ ablocked' = [a \in Acceptors |->
            IF ablocked[a] = "no" /\ apc[a] = "accept" THEN "blocked" ELSE ablocked[a]]
    /\ stopReturned' = TRUE
    /\ stopCh' = StopSignal(stopCh)
    /\ stopChChanges' = IF stopCh' # stopCh THEN stopChChanges + 1 ELSE stopChChanges
    /\ afterFirst' = IF afterFirst = "none" THEN <<"closed", stopCh'>> ELSE afterFirst
    /\ UNCHANGED <<lkind, newErr, MaxStopChecks, goos, portOpen, pending, panicked>>
    /\ UNCHANGED <<apc, aconn, aerr, araw, aafter>>
    /\ UNCHANGED <<sop, si, sprobes, sfailed, ssawReleased, safter, stopCalls, safelyOk>>

\* ---- waitUntilStopped, listener.go 115-132 ----
\* listener.go 121-131: the loop test and one round of the loop: an nc
\* run, and after one that connected the sleep and i++.
WaitProbe(s) ==
    /\ Running
    /\ spc[s] = "loop"
    /\ IF WaitLoopCond(si[s], MaxStopChecks)
       THEN LET ncErr == NcRun(portOpen) IN
            /\ sprobes' = [sprobes EXCEPT ![s] = @ + 1]
            /\ ssawReleased' = [ssawReleased EXCEPT ![s] = @ \/ ~portOpen]
            /\ sfailed' = [sfailed EXCEPT ![s] = @ \/ ncErr # NilError]
            /\ IF ProbeSaysClosed(ncErr)
               THEN /\ serr' = [serr EXCEPT ![s] = NilError]
                    /\ spc' = [spc EXCEPT ![s] = "done"]
                    /\ safelyOk' = TRUE
                    /\ si' = si
               ELSE /\ si' = [si EXCEPT ![s] = NextI(@)]
                    /\ UNCHANGED <<spc, serr, safelyOk>>
       ELSE /\ serr' = [serr EXCEPT ![s] = NotStoppedError]
            /\ spc' = [spc EXCEPT ![s] = "done"]
            /\ UNCHANGED <<si, sprobes, ssawReleased, sfailed, safelyOk>>
    /\ UNCHANGED <<wvars, avars, closeCalls, stopChChanges, stopReturned, afterFirst>>
    /\ UNCHANGED <<sop, scloseErr, sstopErr, swaited, safter, stopCalls>>

\* ---- environment ----
\* A client connects; the kernel queues the connection.
Connect ==
    /\ Running
    /\ portOpen
    /\ pending < MaxPending
    /\ pending' = pending + 1
    /\ UNCHANGED <<lkind, newErr, stopCh, MaxStopChecks, goos, handle, portOpen, panicked, avars, svars, hvars>>

\* The kernel releases the port of a closed descriptor.
PortRelease ==
    /\ handle = "closed"
    /\ portOpen
    /\ portOpen' = FALSE
    /\ pending' = 0
    /\ UNCHANGED <<lkind, newErr, stopCh, MaxStopChecks, goos, handle, panicked, avars, svars, hvars>>

AcceptStep(a) == AcceptCall(a) \/ AcceptWait(a) \/ AcceptLoop(a)

StopStep(s) == StopClose(s) \/ WaitProbe(s)

Next ==
    \/ New
    \/ \E n \in ChecksChoices : Configure(n)
    \/ \E a \in Acceptors : AcceptCall(a)
    \/ \E a \in Acceptors : AcceptWait(a)
    \/ \E a \in Acceptors : AcceptLoop(a)
    \/ \E s \in Stoppers : StopCall(s, "Stop")
    \/ \E s \in Stoppers : StopCall(s, "StopSafely")
    \/ \E s \in Stoppers : StopClose(s)
    \/ \E s \in Stoppers : WaitProbe(s)
    \/ Connect
    \/ PortRelease

Spec == Init /\ [][Next]_vars

\* The Go scheduler runs every goroutine that can take a step.  When to
\* call Stop(), when clients connect and when the kernel releases the port
\* are not under the program's control and get no fairness.
\* FairAcceptSpec: every accept loop keeps moving.
FairAcceptSpec == Spec /\ \A a \in Acceptors : WF_vars(AcceptStep(a))

\* FairStopSpec: every Stop()/StopSafely() call in progress keeps moving.
FairStopSpec == Spec /\ \A s \in Stoppers : WF_vars(StopStep(s))

\* ---- properties ----

\* The number of probes a verifier run has at its disposal.
Budget == IF MaxStopChecks > 0 THEN MaxStopChecks ELSE 0

\* Stopper s has returned from a call of op.
Returned(s, op) == spc[s] = "done" /\ sop[s] = op

\* C1: once Stop() has closed the handle, every Accept() call that was
\* blocked in the underlying accept at that moment and every Accept() call
\* made afterwards returns StoppedError with no connection, and (the accept
\* loops being scheduled fairly) an accept loop that leaves on StoppedError
\* terminates.
C1_StoppedAcceptReturnsStoppedError ==
    /\ [](\A a \in Acceptors :
            (ablocked[a] # "no" /\ apc[a] = "ret")
                => (aerr[a] = StoppedError /\ aconn[a] = NilConn))
    /\ \A a \in Acceptors :
            (closeCalls > 0 /\ apc[a] \in {"idle", "accept"})
                ~> (apc[a] = "exited" /\ aerr[a] = StoppedError)

\* An Accept() call that was blocked when the single Stop() closed the
\* handle returns StoppedError.
C1_Witness ==
    \E a \in Acceptors :
        /\ apc[a] = "ret"
        /\ ablocked[a] = "blocked"
        /\ aerr[a] = StoppedError
        /\ closeCalls = 1

\* C2: an Accept() call that begins after a Stop() call has returned
\* returns an error and no connection.
C2_NoConnectionAfterStop ==
    \A a \in Acceptors :
        (aafter[a] /\ apc[a] = "ret")
            => (aconn[a] = NilConn /\ aerr[a] # NilError)

\* Such a call has returned while the port still took connections.
C2_Witness ==
    \E a \in Acceptors :
        aafter[a] /\ apc[a] = "ret" /\ portOpen /\ pending > 0

\* C3: once a StopSafely() has returned nil the port is closed, at the
\* return and in every later state, so that no connection attempt succeeds.
C3_PortClosedAfterStopSafely ==
    /\ safelyOk => (~portOpen /\ ~ENABLED Connect)
    /\ \A s \in Stoppers :
        (Returned(s, "StopSafely") /\ serr[s] = NilError) => ~portOpen

\* A StopSafely() has returned nil after a probe that was made while the
\* port was still open.
C3_Witness ==
    \E s \in Stoppers :
        /\ Returned(s, "StopSafely")
        /\ serr[s] = NilError
        /\ sprobes[s] >= 2
        /\ safelyOk

\* C4 as stated: a StopSafely() whose close succeeded, with
\* MaxStopChecks >= 1, returns no error.
C4_Original ==
    \A s \in Stoppers :
        (Returned(s, "StopSafely") /\ scloseErr[s] = NilError /\ MaxStopChecks >= 1)
            => serr[s] = NilError

\* C4 amended: a StopSafely() whose close succeeded, with
\* MaxStopChecks >= 1, returns PlatformNotSupportedError on Windows; on
\* every other platform it returns no error when the port was released by
\* the time one of its probes ran, and NotStoppedError when it was not.
C4_StopSafelySucceedsWhenReleased ==
    \A s \in Stoppers :
        (Returned(s, "StopSafely") /\ scloseErr[s] = NilError /\ MaxStopChecks >= 1)
            => serr[s] = (IF goos = "windows" THEN PlatformNotSupportedError
                          ELSE IF ssawReleased[s] THEN NilError
                          ELSE NotStoppedError)

\* StopSafely() has returned nil after a successful close while the accept
\* loop was inside Accept().
C4_Witness ==
    \E s \in Stoppers : \E a \in Acceptors :
        /\ Returned(s, "StopSafely")
        /\ scloseErr[s] = NilError
        /\ MaxStopChecks >= 1
        /\ serr[s] = NilError
        /\ apc[a] = "accept"

\* C5 as stated: StopSafely() returns NotStoppedError exactly when all
\* MaxStopChecks probes were made and connected; once a probe has failed
\* the call has returned nil, with no probe after the failed one.
C5_Original ==
    \A s \in Stoppers :
        /\ Returned(s, "StopSafely") =>
            ((serr[s] = NotStoppedError) <=> (sprobes[s] = Budget /\ ~sfailed[s]))
        /\ sfailed[s] => (Returned(s, "StopSafely") /\ serr[s] = NilError)

\* C5 amended: on a platform other than Windows the above holds; on
\* Windows StopSafely() makes no probe and returns
\* PlatformNotSupportedError.
C5_NotStoppedIffAllProbesConnected ==
    \A s \in Stoppers :
        /\ Returned(s, "StopSafely") =>
            IF goos = "windows"
            THEN serr[s] = PlatformNotSupportedError /\ sprobes[s] = 0
            ELSE (serr[s] = NotStoppedError) <=> (sprobes[s] = Budget /\ ~sfailed[s])
        /\ sfailed[s] => (Returned(s, "StopSafely") /\ serr[s] = NilError)

\* All MaxStopChecks probes connected and StopSafely() returned
\* NotStoppedError.
C5_Witness ==
    \E s \in Stoppers :
        /\ Returned(s, "StopSafely")
        /\ serr[s] = NotStoppedError
        /\ MaxStopChecks >= 1
        /\ sprobes[s] = MaxStopChecks

\* C6: a StopSafely() call never makes more than MaxStopChecks probes and,
\* scheduled fairly, always returns, whatever the port does.
C6_StopSafelyTerminates ==
    /\ [](\A s \in Stoppers : sprobes[s] <= Budget)
    /\ \A s \in Stoppers :
            (sop[s] = "StopSafely" /\ spc[s] # "done") ~> (spc[s] = "done")

\* StopSafely() has returned although the port never closed.
C6_Witness ==
    \E s \in Stoppers :
        /\ Returned(s, "StopSafely")
        /\ portOpen
        /\ sprobes[s] = DefaultMaxStopChecks

\* C7: a Stop() called after a Stop() has returned returns nil, does not
\* panic and leaves the wrapper (handle and stop signal) as the first
\* Stop() left it.
C7_SecondStopIsSafe ==
    \A s \in Stoppers :
        (Returned(s, "Stop") /\ safter[s])
            => /\ serr[s] = NilError
               /\ ~panicked
               /\ <<handle, stopCh>> = afterFirst

\* A second Stop() has returned.
C7_Witness ==
    \E s \in Stoppers :
        Returned(s, "Stop") /\ safter[s] /\ stopCalls = 2 /\ closeCalls = 2

\* C8: the underlying Close is invoked at most once.
C8_CloseAtMostOnce == closeCalls <= 1

\* C9: when a Stop() has returned, the stop signal is in its fired state
\* (closed or nil).
C9_StopFiresSignal == stopReturned => stopCh \in {"closed", "nil"}

\* C10: Stop() returns a non-nil error exactly when the underlying Close
\* reported one.
C10_StopReturnsCloseError ==
    \A s \in Stoppers :
        Returned(s, "Stop") => (serr[s] # NilError <=> scloseErr[s] = "err")

\* C11: when a Stop() has returned whose Close reported an error, the stop
\* signal is in its fired state (closed or nil), and every Accept() call
\* blocked then or made later returns StoppedError and the accept loop
\* leaves.
C11_FailedCloseStillStops ==
    /\ [](\A s \in Stoppers :
            (spc[s] = "done" /\ scloseErr[s] = "err") => stopCh \in {"closed", "nil"})
    /\ \A a \in Acceptors :
            ((\E s \in Stoppers : scloseErr[s] = "err") /\ apc[a] \in {"idle", "accept"})
                ~> (apc[a] = "exited" /\ aerr[a] = StoppedError)

\* What waitUntilStopped() returns, told from the platform and the probes
\* stopper s has made.
WaitResult(s) ==
    IF goos = "windows" THEN PlatformNotSupportedError
    ELSE IF sfailed[s] THEN NilError ELSE NotStoppedError

\* C12: StopSafely() calls the verifier exactly when its Stop() call
\* reported no error: when Stop() reported an error, StopSafely() returns
\* that error and has made no probe; otherwise it returns the verifier's
\* result.  No probe is made before Stop() has returned without an error.
C12_VerifierIffStopOk ==
    \A s \in Stoppers :
        /\ sprobes[s] > 0 => (swaited[s] /\ sstopErr[s] = NilError)
        /\ Returned(s, "StopSafely") =>
            /\ swaited[s] <=> sstopErr[s] = NilError
            /\ sstopErr[s] # NilError => (serr[s] = sstopErr[s] /\ sprobes[s] = 0)
            /\ sstopErr[s] = NilError => serr[s] = WaitResult(s)

\* A StopSafely() whose Close reported an error, but whose Stop() reported
\* none, has probed and returned the verifier's NotStoppedError.
C12_Witness ==
    \E s \in Stoppers :
        /\ Returned(s, "StopSafely")
        /\ scloseErr[s] = "err"
        /\ sstopErr[s] = NilError
        /\ swaited[s]
        /\ sprobes[s] > 0
        /\ serr[s] = NotStoppedError

\* C13: while no Stop() or StopSafely() has been called, an Accept() call
\* is never back at its caller with a deadline timeout as the latest
\* result of the underlying accept, and an Accept() call that returns
\* without the underlying accept having reported a transport failure
\* returns a connection and a nil error.
C13_TimeoutsRetriedInside ==
    \A a \in Acceptors :
        stopCalls = 0 =>
            /\ araw[a] = "timeout" => (apc[a] = "accept" /\ aerr[a] = NilError)
            /\ (apc[a] = "ret" /\ araw[a] \notin {"temporary", "permanent"})
                    => (araw[a] = NilError /\ aconn[a] = Conn /\ aerr[a] = NilError)

\* With no stop requested, an Accept() call has had a deadline timeout, is
\* waiting again, and a connection has arrived for it.
C13_Witness ==
    \E a \in Acceptors :
        /\ stopCalls = 0
        /\ apc[a] = "accept"
        /\ araw[a] = "timeout"
        /\ pending > 0

\* C14: the call of New() on a listener that is not a TCP listener returns
\* ListenerWrapError and makes no wrapper; on a TCP listener it returns a
\* nil error and a wrapper whose stop signal is open (not fired), whose
\* handle is open and whose MaxStopChecks is the default.
C14_NewWrapsOnlyTCP ==
    [][newErr = "none" =>
            IF lkind = "tcp"
            THEN /\ newErr' = NilError
                 /\ stopCh' = "open"
                 /\ handle' = "open"
                 /\ MaxStopChecks' = DefaultMaxStopChecks
            ELSE /\ newErr' = ListenerWrapError
                 /\ stopCh' = "none"]_vars

\* New() has refused a listener that is not a TCP listener.
C14_Witness == lkind = "other" /\ newErr = ListenerWrapError /\ stopCh = "none"

\* C15: whenever Accept() returns StoppedError, a Stop() or StopSafely()
\* call on the wrapper has begun.
C15_Original ==
    \A a \in Acceptors :
        (apc[a] = "ret" /\ aerr[a] = StoppedError) => stopCalls > 0

\* C15 (amended): whenever Accept() returns StoppedError, either a Stop()
\* or StopSafely() call has begun and has closed the handle, which the
\* underlying accept reported, or the underlying accept reported a
\* non-temporary error on the usable handle.
C15_StoppedErrorOnlyOnStopOrPermanent ==
    \A a \in Acceptors :
        (apc[a] = "ret" /\ aerr[a] = StoppedError)
            => \/ araw[a] = "closed" /\ stopCalls > 0 /\ closeCalls > 0
               \/ araw[a] = "permanent"

\* Accept() has returned StoppedError on a non-temporary accept error with
\* no Stop() or StopSafely() call made.
C15_Witness ==
    \E a \in Acceptors :
        /\ apc[a] = "ret"
        /\ aerr[a] = StoppedError
        /\ araw[a] = "permanent"
        /\ stopCalls = 0
        /\ handle = "open"

\* C16: the step in which the underlying accept reports a temporary error
\* that is not a timeout, with the stop signal not fired, takes Accept()
\* to its return with that very error and a nil connection, and leaves the
\* stop signal and the handle as they were.
C16_TemporaryErrorPassedThrough ==
    [][\A a \in Acceptors :
            (stopCh = "open" /\ araw[a] # "temporary" /\ araw'[a] = "temporary")
                => /\ apc[a] = "accept"
                   /\ apc'[a] = "ret"
                   /\ aerr'[a] = "temporary"
                   /\ aconn'[a] = NilConn
                   /\ stopCh' = stopCh
                   /\ handle' = handle]_vars

\* Accept() is returning a temporary accept error as it got it.
C16_Witness ==
    \E a \in Acceptors :
        /\ apc[a] = "ret"
        /\ araw[a] = "temporary"
        /\ aerr[a] = "temporary"
        /\ aconn[a] = NilConn
        /\ stopCh = "open"
        /\ handle = "open"

\* Accept() call of a began before the handle was closed and has not yet
\* handed its result to its caller.
InFlightAtClose(a) == apc[a] = "ret" /\ handle = "closed" /\ ablocked[a] # "after"

\* C17: an Accept() call in flight when Stop() closes the handle returns a
\* connection with a nil error or StoppedError with no connection, never
\* the error of the close itself, and the first non-temporary error of the
\* underlying accept takes Accept() to its return with StoppedError.
C17_Original ==
    /\ [](\A a \in Acceptors :
            /\ aerr[a] \notin {"closed", "permanent"}
            /\ InFlightAtClose(a)
                => \/ aconn[a] = Conn /\ aerr[a] = NilError
                   \/ aconn[a] = NilConn /\ aerr[a] = StoppedError)
    /\ [][\A a \in Acceptors :
            (araw'[a] \in {"closed", "permanent"} /\ araw'[a] # araw[a])
                => (apc'[a] = "ret" /\ aerr'[a] = StoppedError)]_vars

\* C17 (amended): an Accept() call in flight when Stop() closes the handle
\* returns a connection or a temporary error that the underlying accept
\* gave before the close, or StoppedError with no connection; it never
\* returns the error of the close itself, and the first non-temporary
\* error of the underlying accept takes Accept() to its return with
\* StoppedError.
C17_CloseNeverSurfacesRaw ==
    /\ [](\A a \in Acceptors :
            /\ aerr[a] \notin {"closed", "permanent"}
            /\ InFlightAtClose(a)
                => \/ aconn[a] = Conn /\ aerr[a] = NilError /\ ablocked[a] = "no"
                   \/ /\ aconn[a] = NilConn
                      /\ aerr[a] = "temporary"
                      /\ araw[a] = "temporary"
                      /\ ablocked[a] = "no"
                   \/ aconn[a] = NilConn /\ aerr[a] = StoppedError)
    /\ [][\A a \in Acceptors :
            (araw'[a] \in {"closed", "permanent"} /\ araw'[a] # araw[a])
                => (apc'[a] = "ret" /\ aerr'[a] = StoppedError)]_vars

\* Stop() has closed the handle while an Accept() call was about to return
\* a temporary error that the underlying accept had given it.
C17_Witness ==
    \E a \in Acceptors :
        /\ InFlightAtClose(a)
        /\ ablocked[a] = "no"
        /\ aerr[a] = "temporary"
        /\ closeCalls = 1

C19_OnlyStopClosesHandle ==
    [][handle' # handle =>
            /\ handle = "open"
            /\ handle' = "closed"
            /\ closeCalls' = closeCalls + 1
            /\ \E s \in Stoppers : spc[s] = "close" /\ spc'[s] # "close"]_vars

\* After the one Close call an accept loop has run to its end and a
\* verifier has probed and returned; the handle is closed.
C19_Witness ==
    \E a \in Acceptors, s \in Stoppers :
        /\ handle = "closed"
        /\ closeCalls = 1
        /\ apc[a] = "exited"
        /\ Returned(s, "StopSafely")
        /\ sprobes[s] >= 1

\* C20: with MaxStopChecks zero or negative no probe is made, and a
\* StopSafely() that has returned has returned NotStoppedError.
C20_Original ==
    \A s \in Stoppers :
        (newErr = NilError /\ MaxStopChecks <= 0)
            => /\ sprobes[s] = 0
               /\ Returned(s, "StopSafely") => serr[s] = NotStoppedError

\* C20 (amended): with MaxStopChecks zero or negative no probe is made,
\* and a StopSafely() that has returned has returned NotStoppedError on a
\* platform other than Windows and PlatformNotSupportedError on Windows,
\* whatever the state of the port.
C20_NoProbesWithoutBudget ==
    \A s \in Stoppers :
        (newErr = NilError /\ MaxStopChecks <= 0)
            => /\ sprobes[s] = 0
               /\ Returned(s, "StopSafely")
                    => serr[s] = (IF goos = "windows"
                                  THEN PlatformNotSupportedError
                                  ELSE NotStoppedError)

\* With a negative MaxStopChecks StopSafely() has returned NotStoppedError
\* without a probe although the port is closed.
C20_Witness ==
    \E s \in Stoppers :
        /\ Returned(s, "StopSafely")
        /\ MaxStopChecks < 0
        /\ sprobes[s] = 0
        /\ serr[s] = NotStoppedError
        /\ ~portOpen
====
